---- MODULE Spec2Model ----
(***************************************************************************)
(* Model of the Twilio and WooCommerce source connectors                   *)
(* (source_twilio/source.py, source_woocommerce/source.py).                *)
(*                                                                         *)
(* Python values are modelled as follows.                                  *)
(*   - A string is a sequence of atoms.  An atom is either one of the URL  *)
(*     delimiters "?", "&", "=", "#", the character "+", or a word that    *)
(*     contains none of them; urlparse and parse_qsl are computed on the   *)
(*     atom sequence by scanning for the delimiters, as the library does.  *)
(*   - A scalar is a record [t, i, s]: t is "none", "int" or "str".        *)
(*   - A dict is a function from keys to values.                           *)
(*   - The outcome of a call that may raise is a record whose kind is      *)
(*     "error" when it raised.                                             *)
(***************************************************************************)
EXTENDS Integers, Sequences, FiniteSets, TLC

VARIABLES
    component,        \* which part of a sync the behaviour exercises
    stream,           \* the class of the stream instance being driven
    pc,               \* position of HttpStream.read_records' pagination loop
    next_page_token,  \* read_records' local next_page_token
    served,           \* the parts the server wrote the last response from
    response,         \* the response the loop is processing
    in_flight,        \* query parameters of the request sent and not yet answered
    request_count,    \* requests issued for the slice so far
    current_stream_state,  \* the stream state the engine holds
    latest_record,    \* the record last handed to get_updated_state
    previous_state,   \* the stream state before that call
    records_folded,   \* records handed to get_updated_state so far
    connector,        \* the source whose streams() runs: "twilio" or "woocommerce"
    config,           \* the config handed to streams()
    auth,             \* streams()' local auth
    built,            \* the stream instances constructed so far, in order
    raised,           \* the exception that ended streams(), "" when none
    frames,           \* the stream_slices generators of the chain, root first
    ctl,              \* the generator that is running; past the last, the engine
    records_read,     \* parent records the driven stream has read
    slices_yielded,   \* slices the driven stream has yielded
    all_refs_valid,   \* every such record held a valid sub-resource reference
    all_guards_pass,  \* every such record passed the stream's "exists" guard
    read_after_yield  \* the stream read from its parent after its first yield

pageVars == <<next_page_token, served, response, in_flight, request_count>>

stateVars == <<current_stream_state, latest_record, previous_state, records_folded>>

sourceVars == <<connector, config, auth, built, raised>>

sliceVars == <<frames, ctl, records_read, slices_yielded, all_refs_valid,
               all_guards_pass, read_after_yield>>

vars == <<component, stream, pc, pageVars, stateVars, sourceVars, sliceVars>>

(***************************************************************************)
(* Bounds of the model.                                                    *)
(***************************************************************************)
MaxPages == 3       \* requests issued for one slice
MaxParams == 2      \* "&"-separated segments in a query string
MaxCursorLen == 2   \* characters of a cursor value
MaxFold == 3        \* records folded into a stream state
MaxRecords == 2     \* records one read_records call returns

(***************************************************************************)
(* Scalars and dicts.                                                      *)
(***************************************************************************)
None == [t |-> "none", i |-> 0, s |-> <<>>]
PyStr(s) == [t |-> "str", i |-> 0, s |-> s]
PyInt(n) == [t |-> "int", i |-> n, s |-> <<>>]

\* bool(v) of a scalar: None, "" and 0 are falsy.
Truthy(v) ==
    CASE v.t = "none" -> FALSE
      [] v.t = "str" -> v.s # <<>>
      [] v.t = "int" -> v.i # 0

EmptyDict == <<>>

\* d.update(**e): the keys of e override those of d.
Update(d, e) ==
    [k \in (DOMAIN d) \cup (DOMAIN e) |-> IF k \in DOMAIN e THEN e[k] ELSE d[k]]

\* dict(pairs) of a list of (key, value) pairs: a later pair overrides an earlier one.
DictOfPairs(pairs) ==
    [k \in {pairs[i][1] : i \in DOMAIN pairs} |->
        LET last == CHOOSE i \in DOMAIN pairs :
                        /\ pairs[i][1] = k
                        /\ \A j \in DOMAIN pairs : pairs[j][1] = k => j <= i
        IN pairs[last][2]]

(***************************************************************************)
(* urllib.parse, on atom sequences.                                        *)
(***************************************************************************)
\* Index of the first occurrence of atom d in s, 0 when there is none.
Find(s, d) ==
    IF \E i \in DOMAIN s : s[i] = d
    THEN CHOOSE i \in DOMAIN s : s[i] = d /\ \A j \in 1..(i - 1) : s[j] # d
    ELSE 0

\* s.split(d, 1)
Split1(s, d) ==
    LET i == Find(s, d)
    IN IF i = 0 THEN <<s>>
       ELSE <<SubSeq(s, 1, i - 1), SubSeq(s, i + 1, Len(s))>>

\* s.split(d)
RECURSIVE SplitAll(_, _)
SplitAll(s, d) ==
    LET i == Find(s, d)
    IN IF i = 0 THEN <<s>>
       ELSE <<SubSeq(s, 1, i - 1)>> \o SplitAll(SubSeq(s, i + 1, Len(s)), d)

\* urlparse(url): the fragment is cut at the first "#", then the query at the
\* first "?" of what precedes it.
urlparse(url) ==
    LET f == Split1(url, "#")
        q == Split1(f[1], "?")
    IN [path |-> q[1],
        query |-> IF Len(q) = 2 THEN q[2] ELSE <<>>,
        fragment |-> IF Len(f) = 2 THEN f[2] ELSE <<>>]

\* unquote(s.replace("+", " ")) on a string without percent escapes.
unquote(s) == [i \in DOMAIN s |-> IF s[i] = "+" THEN " " ELSE s[i]]

\* parse_qsl(qs) with keep_blank_values=False, strict_parsing=False: a segment
\* without "=" or with an empty value is dropped.
RECURSIVE QslOfSegments(_)
QslOfSegments(segs) ==
    IF segs = <<>> THEN <<>>
    ELSE LET nv == Split1(Head(segs), "=")
             rest == QslOfSegments(Tail(segs))
         IN IF Head(segs) = <<>> THEN rest
            ELSE IF Len(nv) # 2 THEN rest
            ELSE IF Len(nv[2]) = 0 THEN rest
            ELSE <<(<<unquote(nv[1]), PyStr(unquote(nv[2]))>>)>> \o rest

parse_qsl(qs) == QslOfSegments(SplitAll(qs, "&"))

(***************************************************************************)
(* The stream classes of the two modules.  The WooCommerce module's        *)
(* Customers and Orders are written WooCustomers and WooOrders: the Twilio *)
(* module has a Customers class of its own.                                *)
(***************************************************************************)
TwilioNestedClasses ==
    {"Addresses", "DependentPhoneNumbers", "Applications",
     "AvailablePhoneNumberCountries", "AvailablePhoneNumbersLocal",
     "AvailablePhoneNumbersMobile", "AvailablePhoneNumbersTollFree",
     "IncomingPhoneNumbers", "Keys", "Calls", "Conferences",
     "ConferenceParticipants", "OutgoingCallerIds", "Recordings",
     "Transcriptions", "Queues", "Messages", "MessageMedia", "UsageRecords",
     "UsageTriggers"}

TwilioClasses ==
    {"TwilioStream", "TwilioNestedStream", "Accounts", "Alerts", "Customers",
     "IncrementalTwilioStream", "Employees"} \cup TwilioNestedClasses

WoocommerceClasses ==
    {"WoocommerceStream", "IncrementalWoocommerceStream", "WooCustomers", "WooOrders"}

Classes == TwilioClasses \cup WoocommerceClasses

\* Classes with an abstract method left, or declared ABC: never instantiated.
AbstractClasses ==
    {"TwilioStream", "TwilioNestedStream", "IncrementalTwilioStream",
     "WoocommerceStream", "IncrementalWoocommerceStream"}

StreamClasses == Classes \ AbstractClasses

\* The base class named in each class statement.
Base(cls) ==
    CASE cls \in {"TwilioStream", "WoocommerceStream"} -> "HttpStream"
      [] cls \in {"TwilioNestedStream", "Accounts", "Alerts", "Customers",
                  "IncrementalTwilioStream"} -> "TwilioStream"
      [] cls \in TwilioNestedClasses -> "TwilioNestedStream"
      [] cls = "Employees" -> "IncrementalTwilioStream"
      [] cls = "IncrementalWoocommerceStream" -> "WoocommerceStream"
      [] cls \in {"WooCustomers", "WooOrders"} -> "IncrementalWoocommerceStream"

\* The methods each class body defines, among those the model dispatches on.
Methods(cls) ==
    CASE cls = "TwilioStream" -> {"next_page_token", "request_params"}
      [] cls = "TwilioNestedStream" -> {"stream_slices"}
      [] cls = "DependentPhoneNumbers" -> {"stream_slices"}
      [] cls = "IncrementalTwilioStream" -> {"get_updated_state"}
      [] cls = "Employees" -> {"stream_slices"}
      [] cls = "WoocommerceStream" -> {"next_page_token", "request_params", "__init__"}
      [] cls = "IncrementalWoocommerceStream" -> {"get_updated_state"}
      [] OTHER -> {}

\* Method resolution: the nearest class, from cls up its bases, that defines
\* the method; "HttpStream" when none of this repository's classes does.
RECURSIVE Resolve(_, _)
Resolve(cls, method) ==
    IF cls = "HttpStream" THEN "HttpStream"
    ELSE IF method \in Methods(cls) THEN cls
    ELSE Resolve(Base(cls), method)

(***************************************************************************)
(* Pagination: next_page_token and request_params.                         *)
(***************************************************************************)
page_size == 100
per_page == 10

\* The outcome of next_page_token: None, a dict of query parameters, or an
\* exception.
TokenNone == [kind |-> "none", params |-> EmptyDict]
TokenDict(d) == [kind |-> "dict", params |-> d]
TokenError == [kind |-> "error", params |-> EmptyDict]

\* A response, as far as pagination reads it: the body's next_page_uri entry
\* (kind "missing" when the body has no such key, "null", "str", or "other" for
\* a truthy value that is not a string) and the parsed Link header,
\* response.links, a dict from rel to the link's url.
Response(kind, uri, links) == [uri_kind |-> kind, next_page_uri |-> uri, links |-> links]

NoResponse == Response("missing", <<>>, EmptyDict)

\* stream_data.get("next_page_uri") is falsy: the key is missing, or its value
\* is null or the empty string.
NextPageUriFalsy(r) ==
    \/ r.uri_kind \in {"missing", "null"}
    \/ r.uri_kind = "str" /\ r.next_page_uri = <<>>

\* A variant of TwilioStream.next_page_token that tests the key's presence
\* instead of the value's truthiness.
TwilioStream_next_page_token_NoTruthTest(r) ==
    IF r.uri_kind = "missing" THEN TokenNone
    ELSE IF r.uri_kind # "str" THEN TokenError
    ELSE TokenDict(DictOfPairs(parse_qsl(urlparse(r.next_page_uri).query)))

TwilioStream_next_page_token(r) ==
    IF NextPageUriFalsy(r) THEN TokenNone
    ELSE IF r.uri_kind # "str" THEN TokenError
    ELSE TokenDict(DictOfPairs(parse_qsl(urlparse(r.next_page_uri).query)))

\* A variant of WoocommerceStream.next_page_token that hands the whole URL to
\* parse_qsl instead of its query component.
WoocommerceStream_next_page_token_WholeUrl(r) ==
    IF "next" \in DOMAIN r.links
    THEN TokenDict(DictOfPairs(parse_qsl(r.links["next"])))
    ELSE TokenNone

WoocommerceStream_next_page_token(r) ==
    IF "next" \in DOMAIN r.links
    THEN TokenDict(DictOfPairs(parse_qsl(urlparse(r.links["next"]).query)))
    ELSE TokenNone

NextPageToken(cls, r) ==
    CASE Resolve(cls, "next_page_token") = "TwilioStream" -> TwilioStream_next_page_token(r)
      [] Resolve(cls, "next_page_token") = "WoocommerceStream" -> WoocommerceStream_next_page_token(r)

\* A dict is truthy when it is not empty; None is falsy.
TokenTruthy(tok) == tok.kind = "dict" /\ DOMAIN tok.params # {}

\* A variant of TwilioStream.request_params that leaves the token out.
TwilioStream_request_params_NoToken(tok) ==
    [k \in {<<"PageSize">>} |-> PyInt(page_size)]

TwilioStream_request_params(tok) ==
    LET params == [k \in {<<"PageSize">>} |-> PyInt(page_size)]
    IN IF TokenTruthy(tok) THEN Update(params, tok.params) ELSE params

WoocommerceStream_request_params(tok) ==
    LET params == [k \in {<<"per_page">>} |-> PyStr(<<"10">>)]
    IN IF TokenTruthy(tok) THEN Update(params, tok.params)
       ELSE Update(params, [k \in {<<"order">>, <<"orderby">>} |->
                               IF k = <<"order">> THEN PyStr(<<"asc">>)
                               ELSE PyStr(<<"date_modified_gmt">>)])

RequestParams(cls, tok) ==
    CASE Resolve(cls, "request_params") = "TwilioStream" -> TwilioStream_request_params(tok)
      [] Resolve(cls, "request_params") = "WoocommerceStream" -> WoocommerceStream_request_params(tok)

\* HttpStream.read_records ends its loop when next_page_token gave nothing.
PaginationComplete(tok) == ~TokenTruthy(tok)

(***************************************************************************)
(* The replies a server may give.  A reply names the parts the server      *)
(* writes its continuation URL from (the form of the URL and the segments  *)
(* of its query string); the response carries the URL written out, so that *)
(* what the parsers recover can be compared with what was put in.          *)
(***************************************************************************)
SeqsUpTo(S, n) == UNION {[1..m -> S] : m \in 0..n}

\* "&".join(segs)
RECURSIVE JoinAmp(_)
JoinAmp(segs) ==
    IF segs = <<>> THEN <<>>
    ELSE IF Len(segs) = 1 THEN segs[1]
    ELSE segs[1] \o <<"&">> \o JoinAmp(Tail(segs))

\* The URL of the given form: without a query, with a query, with a query
\* followed by a fragment, and with the "?" inside the fragment.
UrlOf(path, form, segs) ==
    CASE form = "path" -> path
      [] form = "path#" -> path \o <<"#", "frag">>
      [] form = "path?query" -> path \o <<"?">> \o JoinAmp(segs)
      [] form = "path?query#" -> path \o <<"?">> \o JoinAmp(segs) \o <<"#", "frag">>
      [] form = "path#?query" -> path \o <<"#", "frag", "?">> \o JoinAmp(segs)

Reply(marker, form, segs) == [marker |-> marker, form |-> form, segs |-> segs]

NoReply == Reply("none", "path", <<>>)

\* Replies whose marker is a URL, over the given query segments.
UrlReplies(marker, segments) ==
    {Reply(marker, f, <<>>) : f \in {"path", "path#"}}
        \cup {Reply(marker, f, q) : f \in {"path?query", "path?query#", "path#?query"},
                                    q \in SeqsUpTo(segments, MaxParams)}

\* Query segments: name=value, a bare name, a name with a blank value, the
\* empty segment, and (WooCommerce) a value that itself holds an "=".
TwilioSegments ==
    {<<"PageToken", "=", "abc">>, <<"PageSize", "=", "50">>, <<"PageToken">>,
     <<"PageToken", "=">>, <<>>}

WooSegments ==
    {<<"page", "=", "2">>, <<"page", "=", "+">>, <<"page">>, <<"page", "=">>, <<>>,
     <<"page", "=", "2", "=", "2">>}

\* Twilio: the body has no next_page_uri ("missing"), a null one, an empty
\* string, a truthy value that is not a string ("other"), or a URL.
TwilioReplies ==
    {Reply(m, "path", <<>>) : m \in {"missing", "null", "empty", "other"}}
        \cup UrlReplies("uri", TwilioSegments)

\* WooCommerce: no Link header ("none"), only a rel="prev" link, a rel="next"
\* link with an empty URL, or a rel="next" link alone or beside a rel="prev" one.
WooReplies ==
    {Reply(m, "path", <<>>) : m \in {"none", "prev", "next_empty"}}
        \cup UrlReplies("next", WooSegments) \cup UrlReplies("next_prev", WooSegments)

Replies(cls) == IF cls \in TwilioClasses THEN TwilioReplies ELSE WooReplies

TwilioPath == <<"/2010-04-01/Accounts.json">>
WooPath == <<"url">>
WooPrevUrl == <<"url", "?", "page", "=", "1">>

ResponseOf(cls, reply) ==
    IF cls \in TwilioClasses
    THEN CASE reply.marker \in {"missing", "null", "other"} -> Response(reply.marker, <<>>, EmptyDict)
           [] reply.marker = "empty" -> Response("str", <<>>, EmptyDict)
           [] reply.marker = "uri" ->
                Response("str", UrlOf(TwilioPath, reply.form, reply.segs), EmptyDict)
    ELSE CASE reply.marker = "none" -> Response("missing", <<>>, EmptyDict)
           [] reply.marker = "prev" ->
                Response("missing", <<>>, [r \in {"prev"} |-> WooPrevUrl])
           [] reply.marker = "next_empty" ->
                Response("missing", <<>>, [r \in {"next"} |-> <<>>])
           [] reply.marker = "next" ->
                Response("missing", <<>>,
                         [r \in {"next"} |-> UrlOf(WooPath, reply.form, reply.segs)])
           [] reply.marker = "next_prev" ->
                Response("missing", <<>>,
                         [r \in {"next", "prev"} |->
                             IF r = "next" THEN UrlOf(WooPath, reply.form, reply.segs)
                             ELSE WooPrevUrl])

(***************************************************************************)
(* HttpStream.read_records, driving one slice of one stream.               *)
(***************************************************************************)
IdlePagination ==
    /\ next_page_token = TokenNone
    /\ served = NoReply
    /\ response = NoResponse
    /\ in_flight = EmptyDict
    /\ request_count = 0

IdleState ==
    /\ current_stream_state = EmptyDict
    /\ latest_record = EmptyDict
    /\ previous_state = EmptyDict
    /\ records_folded = 0

NoAuth == [cls |-> "NoAuth", auth_method |-> "", token |-> <<>>]

IdleSource ==
    /\ connector = ""
    /\ config = EmptyDict
    /\ auth = NoAuth
    /\ built = <<>>
    /\ raised = ""

IdleSlices ==
    /\ frames = <<>>
    /\ ctl = 0
    /\ records_read = 0
    /\ slices_yielded = 0
    /\ all_refs_valid = TRUE
    /\ all_guards_pass = TRUE
    /\ read_after_yield = FALSE

InitPagination ==
    /\ component = "pagination"
    /\ stream \in StreamClasses
    /\ pc = "request"
    /\ IdlePagination
    /\ IdleState
    /\ IdleSource
    /\ IdleSlices

\* The loop builds the request from request_params(next_page_token) and sends
\* it; the previous response is done with.
SendRequest ==
    /\ component = "pagination"
    /\ pc = "request"
    /\ request_count < MaxPages
    /\ in_flight' = RequestParams(stream, next_page_token)
    /\ request_count' = request_count + 1
    /\ served' = NoReply
    /\ response' = NoResponse
    /\ pc' = "await"
    /\ UNCHANGED <<component, stream, next_page_token, stateVars, sourceVars, sliceVars>>

\* The response arrives; the loop asks next_page_token for the next page and
\* ends when there is none.  An exception ends read_records.
ReceiveResponse ==
    /\ component = "pagination"
    /\ pc = "await"
    /\ \E reply \in Replies(stream) :
        LET r == ResponseOf(stream, reply)
            tok == NextPageToken(stream, r)
        IN /\ served' = reply
           /\ response' = r
           /\ next_page_token' = tok
           /\ pc' = IF tok.kind = "error" THEN "error"
                    ELSE IF PaginationComplete(tok) THEN "done"
                    ELSE "request"
    /\ in_flight' = EmptyDict
    /\ UNCHANGED <<component, stream, request_count, stateVars, sourceVars, sliceVars>>

NextPagination == SendRequest \/ ReceiveResponse

SpecPagination == InitPagination /\ [][NextPagination]_vars

(***************************************************************************)
(* Incremental streams: get_updated_state.  A cursor value is a string of  *)
(* digits, written as the sequence of its digits; strings compare          *)
(* lexicographically, as Python compares them.                             *)
(***************************************************************************)
IncrementalClasses == {"WooCustomers", "WooOrders", "Employees"}

\* The cursor_field of each incremental stream.
cursor_field(cls) ==
    IF cls \in WoocommerceClasses THEN "date_modified_gmt" ELSE "start_date"

\* a < b for strings.
StrLess(a, b) ==
    \E i \in 1..Len(b) :
        /\ \A j \in 1..(i - 1) : j <= Len(a) /\ a[j] = b[j]
        /\ (i > Len(a) \/ a[i] < b[i])

\* d.get(key, default)
Get(d, key, default) == IF key \in DOMAIN d THEN d[key] ELSE default

\* The outcome of get_updated_state: a state, or an exception.
StateOk(d) == [kind |-> "ok", state |-> d]
StateError == [kind |-> "error", state |-> EmptyDict]

\* max(a, b) of two scalars: b when b > a, else a; comparing None with
\* anything raises TypeError.
PyMax(a, b) ==
    IF a.t # "str" \/ b.t # "str" THEN [kind |-> "error", value |-> None]
    ELSE [kind |-> "ok", value |-> IF StrLess(a.s, b.s) THEN b ELSE a]

IncrementalWoocommerceStream_get_updated_state(cls, state, record) ==
    LET m == PyMax(Get(record, cursor_field(cls), PyStr(<<>>)),
                   Get(state, cursor_field(cls), PyStr(<<>>)))
    IN IF m.kind = "error" THEN StateError
       ELSE StateOk([k \in {cursor_field(cls)} |-> m.value])

IncrementalTwilioStream_get_updated_state(cls, state, record) == StateOk(EmptyDict)

GetUpdatedState(cls, state, record) ==
    CASE Resolve(cls, "get_updated_state") = "IncrementalWoocommerceStream" ->
            IncrementalWoocommerceStream_get_updated_state(cls, state, record)
      [] Resolve(cls, "get_updated_state") = "IncrementalTwilioStream" ->
            IncrementalTwilioStream_get_updated_state(cls, state, record)

\* Cursor values: the strings of at most MaxCursorLen digits, and null.
Digits == {1, 2}
CursorStrings == {PyStr(s) : s \in SeqsUpTo(Digits, MaxCursorLen)}
CursorValues == CursorStrings \cup {None}

\* A dict that holds the cursor field with one of the cursor values, or not at
\* all.  Stream states and records are such dicts (a record's other fields
\* play no part).
CursorDicts(cls) == {EmptyDict} \cup {[k \in {cursor_field(cls)} |-> v] : v \in CursorValues}

InitState ==
    /\ component = "state"
    /\ stream \in IncrementalClasses
    /\ pc = "read"
    /\ IdlePagination
    /\ current_stream_state \in CursorDicts(stream)
    /\ latest_record = EmptyDict
    /\ previous_state = EmptyDict
    /\ records_folded = 0
    /\ IdleSource
    /\ IdleSlices

\* The engine reads a record and replaces the stream state by
\* get_updated_state(current_stream_state, record); an exception ends the read.
UpdateState ==
    /\ component = "state"
    /\ pc = "read"
    /\ records_folded < MaxFold
    /\ \E record \in CursorDicts(stream) :
        LET out == GetUpdatedState(stream, current_stream_state, record)
        IN /\ latest_record' = record
           /\ previous_state' = current_stream_state
           /\ current_stream_state' = IF out.kind = "ok" THEN out.state ELSE current_stream_state
           /\ pc' = IF out.kind = "ok" THEN "read" ELSE "error"
    /\ records_folded' = records_folded + 1
    /\ UNCHANGED <<component, stream, pageVars, sourceVars, sliceVars>>

NextState == UpdateState

SpecState == InitState /\ [][NextState]_vars

(***************************************************************************)
(* The sources: streams(config).                                           *)
(***************************************************************************)
\* The names each streams() body calls, in the order of its list, each with
\* the single keyword argument authenticator=auth.
StreamsListing(src) ==
    IF src = "twilio"
    THEN <<"Accounts", "Addresses", "DependentPhoneNumbers", "Applications",
           "AvailablePhoneNumberCountries", "AvailablePhoneNumbersLocal",
           "AvailablePhoneNumbersMobile", "AvailablePhoneNumbersTollFree",
           "IncomingPhoneNumbers", "Keys", "Calls", "Conferences",
           "ConferenceParticipants", "OutgoingCallerIds", "Recordings",
           "Transcriptions", "Queues", "Messages", "MessageMedia", "UsageRecords",
           "UsageTriggers", "Alerts">>
    ELSE <<"Customers", "Employees">>

\* The class a name denotes in each module, "" when the module defines no such
\* name.
ClassNamed(src, name) ==
    IF src = "twilio"
    THEN IF name \in TwilioClasses THEN name ELSE ""
    ELSE CASE name = "Customers" -> "WooCustomers"
           [] name = "Orders" -> "WooOrders"
           [] name \in {"WoocommerceStream", "IncrementalWoocommerceStream"} -> name
           [] OTHER -> ""

\* The parameters without a default of the __init__ a class inherits.
RequiredInitArgs(cls) ==
    IF Resolve(cls, "__init__") = "WoocommerceStream"
    THEN {"url", "consumer_key", "consumer_secret", "start_date"}
    ELSE {}

\* base64.b64encode of a string, written as the string under a "b64:" mark.
b64encode(str) == <<"b64:">> \o str

\* HttpBasicAuthenticator((user, password), auth_method)
HttpBasicAuthenticator(user, password, method) ==
    [cls |-> "HttpBasicAuthenticator", auth_method |-> method,
     token |-> b64encode(<<user, ":", password>>)]

\* TokenAuthenticator(token): auth_method defaults to "Bearer".
TokenAuthenticator(token) ==
    [cls |-> "TokenAuthenticator", auth_method |-> "Bearer", token |-> <<token>>]

\* The config keys each source's streams() or stream constructors name.
ConfigKeys(src) ==
    IF src = "twilio" THEN {"account_sid", "auth_token"}
    ELSE {"url", "consumer_key", "consumer_secret", "start_date"}

\* Well-formed configs: every key present, each with one of two values.
Configs(src) == [ConfigKeys(src) -> {"v1", "v2"}]

InitSource ==
    /\ component = "source"
    /\ connector \in {"twilio", "woocommerce"}
    /\ config \in Configs(connector)
    /\ auth = NoAuth
    /\ built = <<>>
    /\ raised = ""
    /\ stream = ""
    /\ pc = "auth"
    /\ IdlePagination
    /\ IdleState
    /\ IdleSlices

\* streams() first builds the authenticator.
BuildAuthenticator ==
    /\ component = "source"
    /\ pc = "auth"
    /\ IF connector = "twilio"
       THEN IF {"account_sid", "auth_token"} \subseteq DOMAIN config
            THEN /\ auth' = HttpBasicAuthenticator(config["account_sid"], config["auth_token"], "Basic")
                 /\ pc' = "construct"
                 /\ raised' = ""
            ELSE /\ auth' = auth
                 /\ pc' = "error"
                 /\ raised' = "KeyError"
       ELSE /\ auth' = TokenAuthenticator("api_key")
            /\ pc' = "construct"
            /\ raised' = ""
    /\ UNCHANGED <<component, stream, connector, config, built, pageVars, stateVars, sliceVars>>

\* The outcome of evaluating the call name(authenticator=auth): NameError when
\* the module defines no such name, TypeError when __init__ has a parameter
\* without a default that the call does not pass.
ConstructorOutcome(src, name) ==
    IF ClassNamed(src, name) = "" THEN "NameError"
    ELSE IF ~(RequiredInitArgs(ClassNamed(src, name)) \subseteq {"authenticator"}) THEN "TypeError"
    ELSE ""

\* The next element of the list is evaluated: the named class is constructed
\* with authenticator=auth, or the call raises and streams() ends.
ConstructStream ==
    /\ component = "source"
    /\ pc = "construct"
    /\ Len(built) < Len(StreamsListing(connector))
    /\ LET name == StreamsListing(connector)[Len(built) + 1]
           outcome == ConstructorOutcome(connector, name)
       IN IF outcome = ""
          THEN /\ built' = Append(built, [cls |-> ClassNamed(connector, name), authenticator |-> auth])
               /\ UNCHANGED <<pc, raised>>
          ELSE /\ pc' = "error"
               /\ raised' = outcome
               /\ UNCHANGED built
    /\ UNCHANGED <<component, stream, connector, config, auth, pageVars, stateVars, sliceVars>>

\* Every element evaluated, streams() returns the list.
ReturnStreams ==
    /\ component = "source"
    /\ pc = "construct"
    /\ Len(built) = Len(StreamsListing(connector))
    /\ pc' = "returned"
    /\ UNCHANGED <<component, stream, sourceVars, pageVars, stateVars, sliceVars>>

NextSource == BuildAuthenticator \/ ConstructStream \/ ReturnStreams

SpecSource == InitSource /\ [][NextSource]_vars

(***************************************************************************)
(* Dependent streams: stream_slices.  stream_slices is a generator: it     *)
(* runs only while its consumer asks it for the next slice, up to its next *)
(* yield.  The generators of a chain of parent streams are kept root       *)
(* first in frames; ctl names the one that is running.                     *)
(***************************************************************************)
DependentClasses == TwilioNestedClasses

\* The parent_stream attribute of each dependent stream class.
parent_stream(cls) ==
    CASE cls = "DependentPhoneNumbers" -> "Addresses"
      [] cls \in {"AvailablePhoneNumbersLocal", "AvailablePhoneNumbersMobile",
                  "AvailablePhoneNumbersTollFree"} -> "AvailablePhoneNumberCountries"
      [] cls = "ConferenceParticipants" -> "Conferences"
      [] cls = "MessageMedia" -> "Messages"
      [] OTHER -> "Accounts"

\* Stream.name: the class name in snake case.
StreamName(cls) ==
    CASE cls = "Accounts" -> "accounts"
      [] cls = "Addresses" -> "addresses"
      [] cls = "DependentPhoneNumbers" -> "dependent_phone_numbers"
      [] cls = "Applications" -> "applications"
      [] cls = "AvailablePhoneNumberCountries" -> "available_phone_number_countries"
      [] cls = "AvailablePhoneNumbersLocal" -> "available_phone_numbers_local"
      [] cls = "AvailablePhoneNumbersMobile" -> "available_phone_numbers_mobile"
      [] cls = "AvailablePhoneNumbersTollFree" -> "available_phone_numbers_toll_free"
      [] cls = "IncomingPhoneNumbers" -> "incoming_phone_numbers"
      [] cls = "Keys" -> "keys"
      [] cls = "Calls" -> "calls"
      [] cls = "Conferences" -> "conferences"
      [] cls = "ConferenceParticipants" -> "conference_participants"
      [] cls = "OutgoingCallerIds" -> "outgoing_caller_ids"
      [] cls = "Recordings" -> "recordings"
      [] cls = "Transcriptions" -> "transcriptions"
      [] cls = "Queues" -> "queues"
      [] cls = "Messages" -> "messages"
      [] cls = "MessageMedia" -> "message_media"
      [] cls = "UsageRecords" -> "usage_records"
      [] cls = "UsageTriggers" -> "usage_triggers"
      [] cls = "Alerts" -> "alerts"
      [] cls = "Customers" -> "customers"
      [] cls = "Employees" -> "employees"

\* data_field: the stream's name unless the class sets it.
data_field(cls) ==
    CASE cls = "AvailablePhoneNumberCountries" -> "countries"
      [] cls \in {"AvailablePhoneNumbersLocal", "AvailablePhoneNumbersMobile",
                  "AvailablePhoneNumbersTollFree"} -> "available_phone_numbers"
      [] cls = "MessageMedia" -> "media"
      [] OTHER -> StreamName(cls)

\* subresource_uri_key: data_field unless the class sets it.
subresource_uri_key(cls) ==
    CASE cls = "AvailablePhoneNumberCountries" -> "available_phone_numbers"
      [] cls = "AvailablePhoneNumbersLocal" -> "local"
      [] cls = "AvailablePhoneNumbersMobile" -> "mobile"
      [] cls = "AvailablePhoneNumbersTollFree" -> "toll_free"
      [] OTHER -> data_field(cls)

\* media_exist_validation: field -> the value that says the sub-resource is absent.
media_exist_validation(cls) ==
    IF cls = "MessageMedia" THEN [k \in {"num_media"} |-> PyStr(<<"0">>)] ELSE EmptyDict

\* The chain of streams from the root to cls, each the parent_stream of the next.
RECURSIVE Chain(_)
Chain(cls) ==
    IF cls \in DependentClasses THEN Append(Chain(parent_stream(cls)), cls) ELSE <<cls>>

\* A slice: None, or a dict.
SliceNone == [kind |-> "none", d |-> EmptyDict]
SliceDict(d) == [kind |-> "dict", d |-> d]

\* A record: its subresource_uris entry (kind "missing" when the record has no
\* such key, "null", or "dict" with the dict d) and its other fields.
Item(urisKind, urisDict, fields) ==
    [uris |-> [kind |-> urisKind, d |-> urisDict], fields |-> fields]

NoItem == Item("missing", EmptyDict, EmptyDict)

\* What the loop body does with one record: yields a slice, skips the record,
\* or raises.
Yield(slice) == [kind |-> "yield", slice |-> slice]
Skip == [kind |-> "skip", slice |-> SliceNone]
Raise == [kind |-> "error", slice |-> SliceNone]

\* A variant of the guard that tests only the truthiness of the guarded
\* field.
Validated_TruthOnly(cls, item) ==
    \A key \in DOMAIN media_exist_validation(cls) :
        Truthy(Get(item.fields, key, None))

\* The loop over media_exist_validation: validated stays true when every
\* guarded field is truthy and differs from its sentinel.
Validated(cls, item) ==
    \A key \in DOMAIN media_exist_validation(cls) :
        /\ Truthy(Get(item.fields, key, None))
        /\ Get(item.fields, key, None) # media_exist_validation(cls)[key]

\* A variant of TwilioNestedStream.stream_slices' body that looks the
\* reference up under data_field instead of subresource_uri_key.
TwilioNestedStream_item_DataFieldKey(cls, item) ==
    IF item.uris.kind = "null" THEN Raise
    ELSE IF Truthy(Get(item.uris.d, data_field(cls), None))
         THEN IF Validated(cls, item)
              THEN Yield(SliceDict([k \in {"subresource_uri"} |->
                            item.uris.d[data_field(cls)]]))
              ELSE Skip
         ELSE Skip

\* The body of TwilioNestedStream.stream_slices' loops for one parent record.
\* item.get('subresource_uris', {}) is None for a null entry, and .get on it
\* raises.
TwilioNestedStream_item(cls, item) ==
    IF item.uris.kind = "null" THEN Raise
    ELSE IF Truthy(Get(item.uris.d, subresource_uri_key(cls), None))
         THEN IF Validated(cls, item)
              THEN Yield(SliceDict([k \in {"subresource_uri"} |->
                            item.uris.d[subresource_uri_key(cls)]]))
              ELSE Skip
         ELSE Skip

\* The body of DependentPhoneNumbers.stream_slices' loops for one parent
\* record: item['sid'] and item['account_sid'] raise KeyError when missing.
DependentPhoneNumbers_item(cls, item) ==
    IF {"sid", "account_sid"} \subseteq DOMAIN item.fields
    THEN Yield(SliceDict([k \in {"sid", "account_sid"} |-> item.fields[k]]))
    ELSE Raise

ItemOutcome(cls, item) ==
    CASE Resolve(cls, "stream_slices") = "TwilioNestedStream" -> TwilioNestedStream_item(cls, item)
      [] Resolve(cls, "stream_slices") = "DependentPhoneNumbers" -> DependentPhoneNumbers_item(cls, item)

SyncModes == {"full_refresh", "incremental"}

\* A variant that hands the caller's own sync mode on to the parent.
ParentSyncMode_FromCaller(cls, sync_mode) == sync_mode

\* The sync_mode a dependent stream passes to its parent's stream_slices and
\* read_records, whatever sync_mode its own stream_slices was called with.
ParentSyncMode(cls, sync_mode) == "full_refresh"

\* A generator of the chain.  pc: "unused" before the generator exists,
\* "start" before its first resumption, "next_slice" about to ask the parent for
\* a slice, "await_slice" while the parent runs, "next_item" about to read a
\* parent record, "yielded" suspended at its yield, "done" exhausted, "error"
\* ended by an exception.  mode: the sync_mode its stream_slices was called
\* with.  read_mode: the sync_mode of its last parent.read_records call.
Frame(fpc, mode) ==
    [pc |-> fpc, mode |-> mode, read_mode |-> "", parent_slice |-> SliceNone,
     item |-> NoItem, slice |-> SliceNone, n_in_read |-> 0]

Depth == Len(Chain(stream))
ClassAt(k) == Chain(stream)[k]

\* The k-th reference a server hands out in one read.
RefNames == <<"/1", "/2", "/3", "/4">>

\* The records a server may return as the n-th of a read_records call made by
\* the slices of cls.  For DependentPhoneNumbers: sid and account_sid, each
\* present or missing.  For the others: subresource_uris missing, null, empty,
\* holding another key only, holding the key of cls with an empty or with a
\* proper URI; and each field cls guards missing, holding the sentinel or
\* holding "1".
ItemsFor(cls, n) ==
    IF Resolve(cls, "stream_slices") = "DependentPhoneNumbers"
    THEN {Item("missing", EmptyDict,
               [f \in present |-> IF f = "sid" THEN PyStr(<<"AD", RefNames[n]>>) ELSE PyStr(<<"AC">>)]) :
            present \in SUBSET {"sid", "account_sid"}}
    ELSE LET key == subresource_uri_key(cls)
             guards == DOMAIN media_exist_validation(cls)
             fieldsets == UNION {[present -> {"sentinel", "1"}] : present \in SUBSET guards}
             fieldsOf(fs) == [f \in DOMAIN fs |->
                                 IF fs[f] = "sentinel" THEN media_exist_validation(cls)[f]
                                 ELSE PyStr(<<"1">>)]
             uris == {[kind |-> "missing", d |-> EmptyDict], [kind |-> "null", d |-> EmptyDict],
                      [kind |-> "dict", d |-> EmptyDict],
                      [kind |-> "dict", d |-> [k \in {"other"} |-> PyStr(<<"/other">>)]],
                      [kind |-> "dict", d |-> [k \in {key} |-> PyStr(<<>>)]],
                      [kind |-> "dict", d |-> [k \in {key} |-> PyStr(<<RefNames[n]>>)]]}
         IN {Item(u.kind, u.d, fieldsOf(fs)) : u \in uris, fs \in fieldsets}

\* The record holds a valid sub-resource reference for cls: a non-empty
\* subresource_uris[subresource_uri_key], or sid and account_sid for
\* DependentPhoneNumbers.
HasValidRef(cls, item) ==
    IF Resolve(cls, "stream_slices") = "DependentPhoneNumbers"
    THEN {"sid", "account_sid"} \subseteq DOMAIN item.fields
    ELSE /\ item.uris.kind = "dict"
         /\ subresource_uri_key(cls) \in DOMAIN item.uris.d
         /\ item.uris.d[subresource_uri_key(cls)].t = "str"
         /\ item.uris.d[subresource_uri_key(cls)].s # <<>>

\* The record passes the "exists" guard of cls: every guarded field is present
\* with a non-empty value other than the sentinel.
PassesGuard(cls, item) ==
    \A f \in DOMAIN media_exist_validation(cls) :
        /\ f \in DOMAIN item.fields
        /\ item.fields[f].t = "str" /\ item.fields[f].s # <<>>
        /\ item.fields[f] # media_exist_validation(cls)[f]

InitSlices ==
    /\ component = "slices"
    /\ stream \in DependentClasses
    /\ pc = "slices"
    /\ \E m \in SyncModes :
        frames = [k \in 1..Depth |-> IF k = Depth THEN Frame("start", m) ELSE Frame("unused", "")]
    /\ ctl = Depth + 1
    /\ records_read = 0
    /\ slices_yielded = 0
    /\ all_refs_valid = TRUE
    /\ all_guards_pass = TRUE
    /\ read_after_yield = FALSE
    /\ IdlePagination
    /\ IdleState
    /\ IdleSource

Running(k) == component = "slices" /\ k \in 1..Depth /\ ctl = k

KeepSliceCounts == UNCHANGED <<records_read, slices_yielded, all_refs_valid, all_guards_pass>>

KeepOthers == UNCHANGED <<component, stream, pc, pageVars, stateVars, sourceVars>>

\* The engine asks the driven stream's stream_slices for its next slice.
EngineNext ==
    /\ component = "slices"
    /\ ctl = Depth + 1
    /\ frames[Depth].pc \in {"start", "yielded"}
    /\ ctl' = Depth
    /\ UNCHANGED <<frames, read_after_yield>>
    /\ KeepSliceCounts /\ KeepOthers

\* First resumption of a dependent stream's generator: it instantiates its
\* parent and calls the parent's stream_slices, which creates the parent's
\* generator (or, for a root stream, the list [None]) without running it.
BeginSlices(k) ==
    /\ Running(k) /\ k >= 2
    /\ frames[k].pc = "start"
    /\ frames' = [frames EXCEPT ![k].pc = "next_slice",
                                ![k - 1] = Frame("start", ParentSyncMode(ClassAt(k), frames[k].mode))]
    /\ UNCHANGED <<ctl, read_after_yield>>
    /\ KeepSliceCounts /\ KeepOthers

\* The outer for loop asks the parent's slices for the next one: the parent's
\* generator runs.
RequestParentSlice(k) ==
    /\ Running(k) /\ k >= 2
    /\ frames[k].pc = "next_slice"
    /\ frames' = [frames EXCEPT ![k].pc = "await_slice"]
    /\ ctl' = k - 1
    /\ UNCHANGED read_after_yield
    /\ KeepSliceCounts /\ KeepOthers

\* A root stream's slices are the list [None]: one slice, None, then the end.
RootSlices ==
    /\ Running(1)
    /\ \/ /\ frames[1].pc = "start"
          /\ frames' = [frames EXCEPT ![1].pc = "yielded", ![1].slice = SliceNone]
       \/ /\ frames[1].pc = "yielded"
          /\ frames' = [frames EXCEPT ![1].pc = "done"]
    /\ ctl' = 2
    /\ UNCHANGED read_after_yield
    /\ KeepSliceCounts /\ KeepOthers

\* The parent yielded a slice: the inner for loop calls the parent's
\* read_records for it.
ReceiveParentSlice(k) ==
    /\ Running(k) /\ k >= 2
    /\ frames[k].pc = "await_slice"
    /\ frames[k - 1].pc = "yielded"
    /\ frames' = [frames EXCEPT ![k].pc = "next_item",
                                ![k].parent_slice = frames[k - 1].slice,
                                ![k].read_mode = ParentSyncMode(ClassAt(k), frames[k].mode),
                                ![k].n_in_read = 0]
    /\ read_after_yield' = (read_after_yield \/ (k = Depth /\ slices_yielded >= 1))
    /\ UNCHANGED ctl
    /\ KeepSliceCounts /\ KeepOthers

\* The parent's slices are exhausted, or the parent raised: so is, or does,
\* this generator, and its consumer goes on.
ParentEnded(k) ==
    /\ Running(k) /\ k >= 2
    /\ frames[k].pc = "await_slice"
    /\ frames[k - 1].pc \in {"done", "error"}
    /\ frames' = [frames EXCEPT ![k].pc = frames[k - 1].pc]
    /\ ctl' = k + 1
    /\ UNCHANGED read_after_yield
    /\ KeepSliceCounts /\ KeepOthers

\* The inner for loop reads the next record of the parent and runs its body
\* on it: the generator yields a slice and is suspended, skips the record, or
\* raises.
ReadParentRecord(k) ==
    /\ Running(k) /\ k >= 2
    /\ frames[k].pc \in {"next_item", "yielded"}
    /\ frames[k].n_in_read < MaxRecords
    /\ \E item \in ItemsFor(ClassAt(k), frames[k].n_in_read + 1) :
        LET out == ItemOutcome(ClassAt(k), item)
        IN /\ frames' = [frames EXCEPT
                            ![k].item = item,
                            ![k].n_in_read = @ + 1,
                            ![k].slice = IF out.kind = "yield" THEN out.slice ELSE @,
                            ![k].pc = CASE out.kind = "yield" -> "yielded"
                                        [] out.kind = "skip" -> "next_item"
                                        [] out.kind = "error" -> "error"]
           /\ ctl' = IF out.kind = "skip" THEN k ELSE k + 1
           /\ IF k = Depth
              THEN /\ records_read' = records_read + 1
                   /\ slices_yielded' = slices_yielded + (IF out.kind = "yield" THEN 1 ELSE 0)
                   /\ all_refs_valid' = (all_refs_valid /\ HasValidRef(stream, item))
                   /\ all_guards_pass' = (all_guards_pass /\ PassesGuard(stream, item))
                   /\ read_after_yield' = (read_after_yield \/ slices_yielded >= 1)
              ELSE /\ KeepSliceCounts
                   /\ UNCHANGED read_after_yield
    /\ KeepOthers

\* A variant in which the generator ends once the records of its first parent
\* slice are exhausted.
RecordsExhausted_Return(k) ==
    /\ Running(k) /\ k >= 2
    /\ frames[k].pc \in {"next_item", "yielded"}
    /\ frames' = [frames EXCEPT ![k].pc = "done"]
    /\ ctl' = k + 1
    /\ UNCHANGED read_after_yield
    /\ KeepSliceCounts /\ KeepOthers

\* The parent has no more records for the slice: the outer loop goes on.
RecordsExhausted(k) ==
    /\ Running(k) /\ k >= 2
    /\ frames[k].pc \in {"next_item", "yielded"}
    /\ frames' = [frames EXCEPT ![k].pc = "next_slice"]
    /\ UNCHANGED <<ctl, read_after_yield>>
    /\ KeepSliceCounts /\ KeepOthers

Levels == 2..Depth

BeginSlicesStep == \E k \in Levels : BeginSlices(k)
RequestParentSliceStep == \E k \in Levels : RequestParentSlice(k)
ReceiveParentSliceStep == \E k \in Levels : ReceiveParentSlice(k)
ParentEndedStep == \E k \in Levels : ParentEnded(k)
ReadParentRecordStep == \E k \in Levels : ReadParentRecord(k)
RecordsExhaustedStep == \E k \in Levels : RecordsExhausted(k)

NextSlices ==
    \/ EngineNext
    \/ RootSlices
    \/ BeginSlicesStep
    \/ RequestParentSliceStep
    \/ ReceiveParentSliceStep
    \/ ParentEndedStep
    \/ ReadParentRecordStep
    \/ RecordsExhaustedStep

SpecSlices == InitSlices /\ [][NextSlices]_vars

Init == InitPagination \/ InitState \/ InitSource \/ InitSlices
Next == NextPagination \/ NextState \/ NextSource \/ NextSlices
Spec == Init /\ [][Next]_vars

(***************************************************************************)
(* Properties of pagination.                                               *)
(***************************************************************************)
\* The reply carries no continuation marker: no next_page_uri, a null or an
\* empty one (Twilio); no rel="next" link (WooCommerce).
NoContinuationMarker == served.marker \in {"missing", "null", "empty", "none", "prev"}

\* A response has been processed by the loop.
Processed == component = "pagination" /\ pc \in {"request", "done", "error"} /\ request_count >= 1

\* C1: for every stream of both connectors, a response without a continuation
\* marker makes next_page_token return None, and the pagination loop then halts:
\* it is done and no further step is possible, so a slice whose first response
\* has no marker is read with exactly one request.
C1_NoMarkerEndsPagination ==
    (Processed /\ NoContinuationMarker) =>
        /\ next_page_token = TokenNone
        /\ pc = "done"
        /\ ~ENABLED NextPagination

C1_Witness ==
    /\ Processed /\ NoContinuationMarker
    /\ stream = "MessageMedia"
    /\ served.marker = "null"
    /\ request_count = 1
    /\ pc = "done"

\* The query of the URL the server wrote: the segments after "?" when the "?"
\* precedes any "#", nothing otherwise.
QueryOf(reply) == IF reply.form \in {"path?query", "path?query#"} THEN reply.segs ELSE <<>>

\* A segment name=value with a value that is not empty.
IsParam(seg) == Len(seg) >= 3 /\ seg[2] = "="

\* A segment that names a parameter, with or without a value.
IsNamed(seg) == Len(seg) >= 1

\* The value a segment gives its name, "+" standing for a space.
ValueOf(seg) ==
    LET v == IF Len(seg) >= 3 THEN SubSeq(seg, 3, Len(seg)) ELSE <<>>
    IN PyStr([i \in DOMAIN v |-> IF v[i] = "+" THEN " " ELSE v[i]])

\* The parameters a query gives, as a dict: the names of the segments that
\* satisfy Is, each with the value of its last such segment.
ParamsOf(segs, Is(_)) ==
    LET idx == {i \in DOMAIN segs : Is(segs[i])}
    IN [n \in {<<segs[i][1]>> : i \in idx} |->
           LET last == CHOOSE i \in idx :
                           /\ <<segs[i][1]>> = n
                           /\ \A j \in idx : <<segs[j][1]>> = n => j <= i
           IN ValueOf(segs[last])]

FixedPageSize == [k \in {<<"PageSize">>} |-> PyInt(page_size)]

\* Page 1 of a Twilio stream carried a next_page_uri and the loop goes on.
TwilioPageTwo ==
    /\ Processed /\ stream \in TwilioClasses
    /\ served.marker = "uri" /\ pc = "request"

\* C5 (as stated): the parameters of the next request hold every query
\* parameter of next_page_uri, every named one included, together with a
\* PageSize; for the query PageToken=abc they hold PageToken=abc and the
\* stream's fixed page size.
C5_Original ==
    TwilioPageTwo =>
        LET params == RequestParams(stream, next_page_token)
            named == ParamsOf(QueryOf(served), IsNamed)
        IN /\ \A n \in DOMAIN named : n \in DOMAIN params /\ params[n] = named[n]
           /\ <<"PageSize">> \in DOMAIN params
           /\ QueryOf(served) = <<(<<"PageToken", "=", "abc">>)>> =>
                /\ params[<<"PageToken">>] = PyStr(<<"abc">>)
                /\ params[<<"PageSize">>] = PyInt(page_size)

\* C5 (amended): when next_page_uri has the query PageToken=abc the next
\* request's parameters are exactly PageToken=abc and PageSize=page_size; in
\* general they are the fixed PageSize overridden by the parameters of
\* next_page_uri that have a value (the last occurrence of a repeated name), and
\* the request sent carries exactly them.
C5_NextRequestParams ==
    /\ TwilioPageTwo =>
        LET params == RequestParams(stream, next_page_token)
        IN /\ params = Update(FixedPageSize, ParamsOf(QueryOf(served), IsParam))
           /\ QueryOf(served) = <<(<<"PageToken", "=", "abc">>)>> =>
                /\ DOMAIN params = {<<"PageToken">>, <<"PageSize">>}
                /\ params[<<"PageToken">>] = PyStr(<<"abc">>)
                /\ params[<<"PageSize">>] = PyInt(page_size)
    /\ (component = "pagination" /\ pc = "await" /\ stream \in TwilioClasses) =>
        in_flight = IF next_page_token.kind = "dict"
                    THEN Update(FixedPageSize, next_page_token.params)
                    ELSE FixedPageSize

C5_Witness ==
    /\ component = "pagination" /\ pc = "await" /\ stream = "Accounts"
    /\ request_count = 2
    /\ in_flight = [k \in {<<"PageToken">>, <<"PageSize">>} |->
                       IF k = <<"PageToken">> THEN PyStr(<<"abc">>) ELSE PyInt(page_size)]

\* A WooCommerce response with a rel="next" link has been processed.
WooNextLink ==
    /\ Processed /\ stream \in WoocommerceClasses
    /\ served.marker \in {"next", "next_prev"}

\* C6 (as stated): the token is the dict of the query parameters of the
\* rel="next" URL, every named parameter included, and nothing else.
C6_Original ==
    WooNextLink => next_page_token = TokenDict(ParamsOf(QueryOf(served), IsNamed))

\* C6 (amended): for the link <url?page=2>; rel="next" the token is exactly
\* {page: "2"}; in general the token is the dict of the query parameters of the
\* rel="next" URL that have a value (decoded, the last occurrence of a repeated
\* name), and nothing else.
C6_NextLinkToken ==
    WooNextLink =>
        /\ next_page_token = TokenDict(ParamsOf(QueryOf(served), IsParam))
        /\ (served.form = "path?query" /\ served.segs = <<(<<"page", "=", "2">>)>>) =>
                next_page_token = TokenDict([k \in {<<"page">>} |-> PyStr(<<"2">>)])

C6_Witness ==
    /\ WooNextLink
    /\ stream = "WooOrders"
    /\ response.links = [r \in {"next"} |-> <<"url", "?", "page", "=", "2">>]
    /\ next_page_token = TokenDict([k \in {<<"page">>} |-> PyStr(<<"2">>)])

\* The reply carries a continuation marker that names no next page: a
\* next_page_uri that is not a string, a rel="next" link with an empty URL, or
\* a URL without a query string or whose query gives no parameter a value.
MalformedMarker ==
    \/ served.marker \in {"other", "next_empty"}
    \/ /\ served.marker \in {"uri", "next", "next_prev"}
       /\ ParamsOf(QueryOf(served), IsParam) = EmptyDict

\* next_page_token raised nothing and the loop halted: it is done and no
\* further step is possible.
EndsWithoutError ==
    /\ next_page_token.kind # "error"
    /\ pc = "done"
    /\ ~ENABLED NextPagination

\* C11: a continuation marker that is present but malformed is treated as the
\* end of the stream and never as an error: next_page_token raises nothing and
\* no further page is requested.
C11_MalformedMarkerEndsPagination ==
    (Processed /\ MalformedMarker) => EndsWithoutError

\* A malformed marker that is a string does end pagination without an error,
\* for the streams of both connectors.
StringMarkerEndsPagination ==
    (Processed /\ MalformedMarker /\ served.marker # "other") =>
        /\ EndsWithoutError
        /\ next_page_token = TokenDict(EmptyDict)

(***************************************************************************)
(* Properties of get_updated_state.                                     *)
(***************************************************************************)
\* A record has been folded into the stream state.
Folded == component = "state" /\ records_folded >= 1

\* The cursor a dict holds, absent when the field is missing or null.
HasCursor(d) == cursor_field(stream) \in DOMAIN d /\ d[cursor_field(stream)].t = "str"
CursorOf(d) == d[cursor_field(stream)].s

\* The cursor of dict d is at least the cursor of dict e: an absent cursor is
\* the floor, and only an absent cursor is at most it.
CursorAtLeast(d, e) ==
    \/ ~HasCursor(e)
    \/ HasCursor(d) /\ HasCursor(e) /\ ~StrLess(CursorOf(d), CursorOf(e))

\* C2: folding get_updated_state over records never decreases the cursor: the
\* state after each record holds a cursor at least the previous state's and at
\* least the record's, in lexicographic order.
C2_CursorMonotone ==
    (Folded /\ pc # "error") =>
        /\ CursorAtLeast(current_stream_state, previous_state)
        /\ CursorAtLeast(current_stream_state, latest_record)

\* The WooCommerce streams do keep the cursor monotone whenever the call
\* returns.
WoocommerceCursorMonotone ==
    (Folded /\ pc # "error" /\ stream \in WoocommerceClasses) =>
        /\ HasCursor(current_stream_state)
        /\ CursorAtLeast(current_stream_state, previous_state)
        /\ CursorAtLeast(current_stream_state, latest_record)

\* The larger of the cursors of two dicts, an absent one counting as the floor
\* (the empty string).
FloorMax(d, e) ==
    LET a == IF HasCursor(d) THEN CursorOf(d) ELSE <<>>
        b == IF HasCursor(e) THEN CursorOf(e) ELSE <<>>
    IN PyStr(IF StrLess(a, b) THEN b ELSE a)

\* C9: get_updated_state never fails on an absent cursor: with the cursor field
\* missing or null in the state, in the record or in both, the result is
\* {cursor_field: max of the two with the absent side as the floor}.
C9_AbsentCursorIsFloor ==
    Folded =>
        /\ pc # "error"
        /\ current_stream_state =
             [k \in {cursor_field(stream)} |-> FloorMax(previous_state, latest_record)]

\* With the field missing (not null) on either side, the WooCommerce streams do
\* return the floor-max.
WoocommerceMissingIsFloor ==
    (/\ Folded /\ stream \in WoocommerceClasses
     /\ \A d \in {previous_state, latest_record} :
            cursor_field(stream) \in DOMAIN d => d[cursor_field(stream)].t = "str") =>
        /\ pc # "error"
        /\ current_stream_state =
             [k \in {cursor_field(stream)} |-> FloorMax(previous_state, latest_record)]

(***************************************************************************)
(* Properties of streams(config).                                          *)
(***************************************************************************)
\* The streams each connector declares: the concrete stream classes of its
\* module, the Twilio module's template placeholders (Customers, Employees)
\* left out.
DeclaredStreams(src) ==
    IF src = "twilio" THEN (TwilioClasses \ AbstractClasses) \ {"Customers", "Employees"}
    ELSE WoocommerceClasses \ AbstractClasses

\* The authenticator is built from the config's credentials.
AuthFromCredentials ==
    IF connector = "twilio"
    THEN auth = HttpBasicAuthenticator(config["account_sid"], config["auth_token"], "Basic")
    ELSE \E k \in DOMAIN config : \E i \in DOMAIN auth.token : auth.token[i] = config[k]

\* streams() returned one instance of every declared stream, all holding the
\* one authenticator built from the credentials.
StreamsAsDeclared ==
    /\ pc = "returned"
    /\ raised = ""
    /\ {built[i].cls : i \in DOMAIN built} = DeclaredStreams(connector)
    /\ Len(built) = Cardinality(DeclaredStreams(connector))
    /\ \A i \in DOMAIN built : built[i].authenticator = auth
    /\ AuthFromCredentials

\* C10: for both connectors and every well-formed config, streams(config)
\* completes without error and returns one instance of every declared stream,
\* all holding the same authenticator built from the config credentials.
C10_StreamsConstructed ==
    (component = "source" /\ pc \in {"returned", "error"}) => StreamsAsDeclared

\* SourceTwilio.streams does so.
TwilioStreamsConstructed ==
    (component = "source" /\ connector = "twilio" /\ pc \in {"returned", "error"}) =>
        StreamsAsDeclared

(***************************************************************************)
(* Properties of stream_slices.                                            *)
(***************************************************************************)
\* The generator of the driven stream.
Top == frames[Depth]

\* The slice a dependent stream derives from a parent record: the record's
\* sid and account_sid for DependentPhoneNumbers, the record's
\* subresource_uris[subresource_uri_key] for the others.
SliceFrom(cls, item) ==
    IF cls = "DependentPhoneNumbers"
    THEN SliceDict([k \in {"sid", "account_sid"} |-> item.fields[k]])
    ELSE SliceDict([k \in {"subresource_uri"} |-> item.uris.d[subresource_uri_key(cls)]])

\* One child slice per parent record read so far, the latest slice derived
\* from the latest record, and no exception but one of the parent's own.  As
\* this holds after every record, the i-th slice is derived from the i-th
\* record.
OneSlicePerRecord ==
    /\ slices_yielded = records_read
    /\ Top.pc = "error" => frames[Depth - 1].pc = "error"
    /\ records_read >= 1 => Top.slice = SliceFrom(stream, Top.item)

\* C3 (as stated): when every record the parent emitted holds a valid
\* sub-resource reference, the dependent stream has yielded exactly one slice
\* per record, in the parent's order.
C3_Original ==
    (component = "slices" /\ all_refs_valid) => OneSlicePerRecord

\* C3 (amended): when every record the parent emitted holds a valid
\* sub-resource reference and passes the stream's "exists" guard (streams
\* without a guard: every record), the dependent stream has yielded exactly one
\* slice per record, in the parent's order.
C3_SlicePerValidRecord ==
    (component = "slices" /\ all_refs_valid /\ all_guards_pass) => OneSlicePerRecord

C3_Witness ==
    /\ component = "slices" /\ stream = "DependentPhoneNumbers"
    /\ all_refs_valid /\ all_guards_pass
    /\ records_read = MaxRecords + 1 /\ slices_yielded = MaxRecords + 1
    /\ Top.pc = "done"

C3_WitnessGuarded ==
    /\ component = "slices" /\ stream = "MessageMedia"
    /\ all_refs_valid /\ all_guards_pass
    /\ records_read = 2 /\ slices_yielded = 2

\* C4: a dependent stream with an "exists" guard never yields a slice for a
\* parent record whose guarded field holds the sentinel, whatever the record's
\* subresource_uris: while such a record is the one read last, the generator
\* is not suspended at a yield.
C4_NoSliceForSentinel ==
    component = "slices" =>
        \A k \in 2..Depth :
            (\E f \in DOMAIN media_exist_validation(ClassAt(k)) :
                /\ f \in DOMAIN frames[k].item.fields
                /\ frames[k].item.fields[f] = media_exist_validation(ClassAt(k))[f])
            => frames[k].pc # "yielded"

C4_Witness ==
    /\ component = "slices" /\ stream = "MessageMedia"
    /\ Top.item.fields = [f \in {"num_media"} |-> PyStr(<<"0">>)]
    /\ HasValidRef(stream, Top.item)
    /\ Top.n_in_read = 2
    /\ slices_yielded = 1

\* C7 (as stated): no child slice is yielded until every slice and every
\* record of the parent has been read: once the stream has yielded a slice it
\* reads nothing more from its parent.
C7_Original ==
    component = "slices" => ~read_after_yield

\* C7 (amended): each level reads its parent lazily.  While a generator is
\* suspended at a yield, the generator of its parent is suspended at a yield
\* too, not exhausted, and the slice yielded is derived from the record read
\* last; the parent is read to its end only by the time the child's own slices
\* are exhausted.
C7_LazyExpansion ==
    component = "slices" =>
        \A k \in 2..Depth :
            /\ frames[k].pc = "yielded" =>
                /\ frames[k - 1].pc = "yielded"
                /\ frames[k].parent_slice = frames[k - 1].slice
                /\ frames[k].n_in_read >= 1
            /\ frames[k].pc = "done" => frames[k - 1].pc = "done"

C7_Witness ==
    /\ component = "slices" /\ stream = "DependentPhoneNumbers"
    /\ frames[3].pc = "yielded" /\ frames[2].pc = "yielded" /\ frames[1].pc = "yielded"
    /\ ctl = 4
    /\ read_after_yield

\* C8: whenever a dependent stream computes its slices it calls its parent's
\* stream_slices and read_records with sync_mode full_refresh, whatever
\* sync_mode its own stream_slices was called with, at every level of the chain.
C8_ParentReadFullRefresh ==
    component = "slices" =>
        \A k \in 2..Depth :
            /\ frames[k - 1].pc # "unused" => frames[k - 1].mode = "full_refresh"
            /\ frames[k].read_mode \in {"", "full_refresh"}

C8_Witness ==
    /\ component = "slices" /\ stream = "DependentPhoneNumbers"
    /\ frames[3].mode = "incremental"
    /\ frames[3].read_mode = "full_refresh" /\ frames[2].read_mode = "full_refresh"
    /\ frames[2].mode = "full_refresh" /\ frames[1].mode = "full_refresh"

====
